---- MODULE Spec2Model ----
(***************************************************************************)
(* The Model engine (lib/relations/model.py) over the reference in-memory  *)
(* Source (lib/relations/unittest.py, MockSource).                         *)
(*                                                                         *)
(* Two entity types are declared, as in the package's own examples:        *)
(*     class Unit(Model): id = int; name = str                             *)
(*     class Test(Model): id = int; unit_id = int; name = str              *)
(* related parent -> child over (unit.id, test.unit_id).                   *)
(*                                                                         *)
(* A Python value is an integer here: None is 0, identity values are the   *)
(* positive integers the counter hands out, and the str values of "name"   *)
(* are the tokens 11, 12, ... (only their equality is ever used).          *)
(* An optional object (a Record or None, a list or None, a Model or None)  *)
(* is a sequence of length 0 (None) or 1 (the object).                     *)
(***************************************************************************)
EXTENDS Integers, Sequences, FiniteSets, TLC

VARIABLES
    MODE,      \* the relation's MODE: "many" (OneToMany) or "one" (OneToOne)
    ids,       \* MockSource.ids : NAME -> counter
    data,      \* MockSource.data: NAME -> (table key -> stored row)
    held,      \* the Model instance the program holds (None before the first is built)
    last       \* the last call: its verb and arguments, the action the instance
               \* was in, what the call raised, and what it returned: an
               \* instance or None (ret), or a number of rows (count)

vars == <<MODE, ids, data, held, last>>

----------------------------------------------------------------------------
(* Bounds *)

MaxId == 2          \* cap on each entity type's identity counter
MaxName == 2        \* number of distinct name values

Names == {10 + i : i \in 1..MaxName}

----------------------------------------------------------------------------
(* Python values *)

None == 0

Some(x) == <<x>>
Nothing == <<>>
IsNone(o) == Len(o) = 0
The(o) == o[1]

\* A dict with ordered keys: a function; {} is the function of empty domain.
EmptyDict == <<>>
Put(d, k, v) == [x \in (DOMAIN d) \cup {k} |-> IF x = k THEN v ELSE d[x]]
Del(d, k) == [x \in (DOMAIN d) \ {k} |-> d[x]]
Get(d, k) == IF k \in DOMAIN d THEN d[k] ELSE None

\* dict.update(values)
DictUpdate(d, values) ==
    [x \in (DOMAIN d) \cup (DOMAIN values) |-> IF x \in DOMAIN values THEN values[x] ELSE d[x]]

\* The keys of a table in iteration order.  A dict iterates in insertion
\* order; model_create inserts under the counter's value, which only grows,
\* so insertion order is ascending key order.
RECURSIVE SortedKeys(_)
SortedKeys(S) ==
    IF S = {} THEN <<>>
    ELSE LET k == CHOOSE x \in S : \A y \in S : x <= y
         IN  <<k>> \o SortedKeys(S \ {k})

----------------------------------------------------------------------------
(* Errors.  NoError is "nothing was raised". *)

NoError == [kind |-> "", NAME |-> "", message |-> <<>>]
ModelError(NAME, message) == [kind |-> "ModelError", NAME |-> NAME, message |-> message]
KeyError == [kind |-> "KeyError", NAME |-> "", message |-> <<>>]
TypeError == [kind |-> "TypeError", NAME |-> "", message |-> <<>>]
Raised(r) == r.err.kind # ""

----------------------------------------------------------------------------
(* Entity type metadata: ModelIdentity._thyself and MockSource.model_init *)

NAMES == {"unit", "test"}

_fields(NAME) == IF NAME = "unit" THEN <<"id", "name">> ELSE <<"id", "unit_id", "name">>

FieldNames(NAME) == {_fields(NAME)[i] : i \in DOMAIN _fields(NAME)}

\* ID = 0: the identity field is the first field
_id(NAME) == _fields(NAME)[1]

\* model_init: the identity field becomes auto_increment and readonly
readonly(NAME, field) == field = _id(NAME)

\* no declared field has a default
default(NAME, field) == None

\* The relation descriptor of OneToMany/OneToOne(Unit, Test)
relation == [Parent |-> "unit", Child |-> "test",
             parent_field |-> "id", child_field |-> "unit_id",
             parent_child |-> "test", child_parent |-> "unit"]

PARENTS(NAME) == IF NAME = relation.Child THEN {relation.child_parent} ELSE {}
CHILDREN(NAME) == IF NAME = relation.Parent THEN {relation.parent_child} ELSE {}

\* _field_name: the name of a field given by name (every key of this model
\* is a name; positions are resolved where the positional arguments are bound)
_field_name(NAME, field) == CHOOSE name \in FieldNames(NAME) : name = field

----------------------------------------------------------------------------
(* The Record primitive: per field a value, a changed mark and criteria.   *)

NoCriteria == [eq |-> Nothing, in |-> Nothing]

Record(NAME) ==
    [_action  |-> "",
     value    |-> [f \in FieldNames(NAME) |-> None],
     changed  |-> [f \in FieldNames(NAME) |-> FALSE],
     criteria |-> [f \in FieldNames(NAME) |-> NoCriteria]]

\* record[field] = value
RecordSet(record, field, value) ==
    [record EXCEPT !.value[field] = value, !.changed[field] = TRUE]

\* record.filter("field", value) and record.filter("field__in", values)
RecordFilter(record, field, operator, value) ==
    IF operator = "in"
    THEN [record EXCEPT !.criteria[field].in = Some(value)]
    ELSE [record EXCEPT !.criteria[field].eq = Some(value)]

FieldSatisfy(criteria, value) ==
    /\ (~IsNone(criteria.eq) => value = The(criteria.eq))
    /\ (~IsNone(criteria.in) => value \in The(criteria.in))

\* record.satisfy(row)
RecordSatisfy(record, row) ==
    \A f \in DOMAIN record.value : FieldSatisfy(record.criteria[f], Get(row, f))

\* A faulty record.read(row), which loads nothing
RecordReadNothing(record, row) == record

\* record.read(row)
RecordRead(record, row) ==
    [record EXCEPT !.value = [f \in DOMAIN record.value |-> Get(row, f)],
                   !.changed = [f \in DOMAIN record.value |-> FALSE]]

\* A write that puts the readonly fields in the values too
RecordWriteAll(NAME, record) == record.value

\* the values record.write({}) returns: every field that is not readonly
RecordWriteValues(NAME, record) ==
    [f \in {g \in FieldNames(NAME) : ~readonly(NAME, g)} |-> record.value[f]]

\* the record after record.write(): what was written is no longer changed
RecordWritten(NAME, record) ==
    [record EXCEPT !.changed =
        [f \in DOMAIN record.value |-> IF readonly(NAME, f) THEN record.changed[f] ELSE FALSE]]

----------------------------------------------------------------------------
(* What a call yields: the instance it acted on, the source, what it       *)
(* raised, what it returned.  A raised call keeps the effects it had       *)
(* before the raise.                                                       *)

Ok(m, s) == [m |-> m, s |-> s, err |-> NoError, ret |-> <<>>]
Return(m, s, ret) == [m |-> m, s |-> s, err |-> NoError, ret |-> ret]
Raise(m, s, err) == [m |-> m, s |-> s, err |-> err, ret |-> <<>>]

----------------------------------------------------------------------------
(* Model instances *)

\* The attributes of a Model before __init__ decides anything
Instance(NAME) ==
    [NAME      |-> NAME,
     _role     |-> "model",
     _mode     |-> "",
     _action   |-> "create",
     _record   |-> Nothing,
     _models   |-> Nothing,
     _related  |-> EmptyDict,
     _limit    |-> Nothing,
     _offset   |-> 0,
     overflow  |-> FALSE,
     _parents  |-> [p \in PARENTS(NAME) |-> Nothing],
     _children |-> [c \in CHILDREN(NAME) |-> Nothing]]

\* The reserved construction options and the caller's arguments; "each" is
\* args[0] when it is a list (one dict of named values per element).
Options ==
    [_read |-> Nothing, _child |-> Nothing, _parent |-> Nothing,
     _action |-> "create", _mode |-> "", _related |-> EmptyDict,
     args |-> <<>>, each |-> Nothing, kwargs |-> EmptyDict]

\* _input's while loop: the next field (0-based) that is neither readonly
\* nor inherited
RECURSIVE InputField(_, _, _)
InputField(NAME, _related, field) ==
    IF field < Len(_fields(NAME))
       /\ (readonly(NAME, _fields(NAME)[field + 1]) \/ _fields(NAME)[field + 1] \in DOMAIN _related)
    THEN InputField(NAME, _related, field + 1)
    ELSE field

RECURSIVE InputArgs(_, _, _, _, _)
InputArgs(NAME, _related, record, args, field) ==
    IF args = <<>> THEN record
    ELSE LET at == InputField(NAME, _related, field)
         IN  InputArgs(NAME, _related, RecordSet(record, _fields(NAME)[at + 1], Head(args)),
                       Tail(args), at + 1)

\* record[name] = value for every item of a dict
RecordSetAll(record, values) ==
    [record EXCEPT
        !.value   = [f \in DOMAIN record.value |-> IF f \in DOMAIN values THEN values[f] ELSE @[f]],
        !.changed = [f \in DOMAIN record.value |-> IF f \in DOMAIN values THEN TRUE ELSE @[f]]]

_input(m, record, args, kwargs) ==
    RecordSetAll(InputArgs(m.NAME, m._related, record, args, 0), kwargs)

_build(m, _action, args, kwargs, _defaults, _read) ==
    LET fresh == [Record(m.NAME) EXCEPT !._action = _action]
        defaulted ==
            [fresh EXCEPT !.value =
                [f \in DOMAIN fresh.value |->
                    IF _defaults /\ default(m.NAME, f) # None THEN default(m.NAME, f) ELSE None]]
        read == IF IsNone(_read) THEN defaulted ELSE RecordRead(defaulted, The(_read))
        related == RecordSetAll(read, m._related)
    IN  _input(m, related, args, kwargs)

\* record.filter(field, value) for every item of a dict
RecordFilterAll(record, values) ==
    [record EXCEPT !.criteria =
        [f \in DOMAIN record.value |->
            IF f \in DOMAIN values THEN [@[f] EXCEPT !.eq = Some(values[f])] ELSE @[f]]]

\* record.filter(index, value) for index, value in enumerate(args)
RECURSIVE RecordFilterArgs(_, _, _, _)
RecordFilterArgs(NAME, record, args, index) ==
    IF args = <<>> THEN record
    ELSE RecordFilterArgs(NAME, RecordFilter(record, _fields(NAME)[index + 1], "eq", Head(args)),
                          Tail(args), index + 1)

----------------------------------------------------------------------------
(* The Model engine.  Every operator takes the source s = [ids, data] and  *)
(* yields Ok/Return/Raise; the operators call each other as the methods    *)
(* do.  Where a method goes on after a call it makes, the rest of the      *)
(* method is an operator of its own that takes what the call yielded.      *)

RECURSIVE __init__(_, _, _)
RECURSIVE filter(_, _, _, _)
RECURSIVE FilterKwargs(_, _, _)
RECURSIVE _relate(_, _, _)
RECURSIVE _ensure(_, _)
RECURSIVE __getitem__(_, _, _)
RECURSIVE __setitem__(_, _, _, _)
RECURSIVE SetItemEach(_, _, _, _, _, _)
RECURSIVE _propagate(_, _, _, _)
RECURSIVE __len__(_, _)
RECURSIVE _collate(_, _)
RECURSIVE retrieve(_, _, _)
RECURSIVE model_retrieve(_, _, _)
RECURSIVE create(_, _)
RECURSIVE model_create(_, _)
RECURSIVE CreateEach(_, _, _)
RECURSIVE update(_, _)
RECURSIVE model_update(_, _)
RECURSIVE UpdateEach(_, _, _, _)
RECURSIVE add(_, _, _, _)

\* a list that is neither None nor empty
Truthy(list) == ~IsNone(list) /\ Len(The(list)) > 0

\* The cached handle of a relation, whichever registry it is in
Relative(m, name) ==
    IF name \in PARENTS(m.NAME) THEN m._parents[name] ELSE m._children[name]

SetRelative(m, name, handle) ==
    IF name \in PARENTS(m.NAME)
    THEN [m EXCEPT !._parents[name] = handle]
    ELSE [m EXCEPT !._children[name] = handle]

\* what a call on a relation handle yielded, as what the owner yields
Into(r, m, name) == [r EXCEPT !.m = SetRelative(m, name, Some(r.m))]

\* Model.__init__ from a row read from the source (_read)
FromRead(NAME, _read) ==
    LET m1 == [Instance(NAME) EXCEPT !._mode = "one", !._action = "update"]
    IN  [m1 EXCEPT !._record = Some(_build(m1, "update", <<>>, EmptyDict, TRUE, Some(_read)))]

\* Model.__init__ as a one-mode creation
Creation(NAME, _related, args, kwargs) ==
    LET m1 == [Instance(NAME) EXCEPT !._mode = "one", !._related = _related]
    IN  [m1 EXCEPT !._record = Some(_build(m1, "create", args, kwargs, TRUE, Nothing))]

\* Model.__init__ up to its call of filter, when it builds a retrieving
\* instance: a parent placeholder, a child placeholder or a search
Retrieving(NAME, o) ==
    LET m1 == IF ~IsNone(o._child)
              THEN [Instance(NAME) EXCEPT !._related = The(o._child), !._role = "parent",
                                          !._mode = "one", !._action = "retrieve"]
              ELSE IF ~IsNone(o._parent)
              THEN [Instance(NAME) EXCEPT !._related = The(o._parent), !._role = "child",
                                          !._mode = o._mode, !._action = "retrieve"]
              ELSE [Instance(NAME) EXCEPT !._mode = o._mode, !._action = "retrieve"]
    IN  [m1 EXCEPT !._record = Some(_build(m1, "retrieve", <<>>, EmptyDict, FALSE, Nothing))]

\* list(self._related.values())[0]
FirstValue(dict) == dict[CHOOSE k \in DOMAIN dict : TRUE]

\* Model.__init__: the five construction protocols
__init__(NAME, o, s) ==
    IF ~IsNone(o._read) THEN Ok(FromRead(NAME, The(o._read)), s)
    ELSE IF ~IsNone(o._child) THEN filter(Retrieving(NAME, o), o.args, o.kwargs, s)
    ELSE IF ~IsNone(o._parent) /\ FirstValue(The(o._parent)) = None THEN
        Ok([Instance(NAME) EXCEPT !._related = The(o._parent), !._role = "child",
                                  !._mode = o._mode, !._action = "create"], s)
    ELSE IF ~IsNone(o._parent) \/ o._action = "retrieve" THEN
        filter(Retrieving(NAME, o), o.args, o.kwargs, s)
    ELSE IF o._action = "create" THEN
        IF o._mode = "many" \/ (o._mode = "" /\ ~IsNone(o.each))
        THEN Ok([Instance(NAME) EXCEPT
                    !._mode = "many", !._related = o._related,
                    !._models = Some([i \in 1..Len(The(o.each)) |->
                                        Creation(NAME, EmptyDict, <<>>, The(o.each)[i])])], s)
        ELSE Ok(Creation(NAME, o._related, o.args, o.kwargs), s)
    ELSE Ok([Instance(NAME) EXCEPT !._action = o._action], s)

\* Model.filter.  A named argument is keyed by its name split on "__":
\* <<"name">>, <<"id", "in">>, <<"unit", "name">>.
filter(m, args, kwargs, s) ==
    FilterKwargs([m EXCEPT !._record =
                    Some(RecordFilterArgs(m.NAME, RecordFilterAll(The(@), m._related), args, 0))],
                 kwargs, s)

\* the named argument the loop of filter is at
Piece(kwargs) == CHOOSE k \in DOMAIN kwargs : TRUE

\* filter's loop, after relation.filter(...)
Filtered(f, m, kwargs) ==
    IF Raised(f) THEN Into(f, m, Piece(kwargs)[1])
    ELSE FilterKwargs(SetRelative(m, Piece(kwargs)[1], Some(f.m)), Del(kwargs, Piece(kwargs)), f.s)

\* filter's loop, after self._relate(pieces[0])
Filtering(rel, kwargs) ==
    LET pieces == Piece(kwargs)
        value == kwargs[pieces]
        operator == IF Len(pieces) > 1 THEN pieces[2] ELSE "eq"
    IN  IF Raised(rel) THEN rel
        ELSE IF ~IsNone(rel.ret)
        THEN Filtered(filter(The(rel.ret), <<>>, [k \in {Tail(pieces)} |-> value], rel.s),
                      rel.m, kwargs)
        ELSE FilterKwargs([rel.m EXCEPT !._record =
                              Some(RecordFilter(The(@), pieces[1], operator, value))],
                          Del(kwargs, pieces), rel.s)

FilterKwargs(m, kwargs, s) ==
    IF DOMAIN kwargs = {} THEN Return(m, s, <<"self">>)
    ELSE Filtering(_relate(m, Piece(kwargs)[1], s), kwargs)

\* the entity type at the other end of a relation
RelativeNAME(m, name) == IF name \in PARENTS(m.NAME) THEN relation.Parent ELSE relation.Child

\* the construction options _relate builds the handle with; g is what
\* self[relation.child_field] yielded when it was read
RelateOptions(g, name) ==
    IF g.m._action = "retrieve"
    THEN [Options EXCEPT !._action = "retrieve", !._mode = "many"]
    ELSE IF name \in PARENTS(g.m.NAME)
    THEN [Options EXCEPT !._child = Some([k \in {relation.parent_field} |-> g.ret])]
    ELSE [Options EXCEPT
            !._parent = Some([k \in {relation.child_field} |->
                                The(g.m._record).value[relation.parent_field]]),
            !._mode = MODE]

\* _relate, after the handle was built
Related(p, m, name) ==
    IF Raised(p) THEN Raise(m, p.s, p.err)
    ELSE Return(SetRelative(m, name, Some(p.m)), p.s, Some(p.m))

\* _relate, building the handle
Relating(g, name) ==
    IF Raised(g) THEN g
    ELSE IF g.m._action # "retrieve" /\ name \in CHILDREN(g.m.NAME) /\ IsNone(g.m._record)
    THEN Raise(g.m, g.s, TypeError)
    ELSE Related(__init__(RelativeNAME(g.m, name), RelateOptions(g, name), g.s), g.m, name)

\* Model._relate: the handle of the relation, built and cached when absent
_relate(m, name, s) ==
    IF name \notin PARENTS(m.NAME) \cup CHILDREN(m.NAME) THEN Return(m, s, Nothing)
    ELSE IF ~IsNone(Relative(m, name)) THEN Return(m, s, Relative(m, name))
    ELSE Relating(IF m._action # "retrieve" /\ name \in PARENTS(m.NAME)
                  THEN __getitem__(m, relation.child_field, s)
                  ELSE Ok(m, s),
                  name)

\* Model._ensure
_ensure(m, s) ==
    IF m._action = "retrieve"
    THEN IF The(m._record)._action = "update"
         THEN Raise(m, s, ModelError(m.NAME, <<"need to update">>))
         ELSE retrieve(m, TRUE, s)
    ELSE Ok(m, s)

\* The value of a field of a sub-instance: model[key] on a member of
\* _models, which is a one-mode instance in create or update action, so
\* that _ensure does nothing and the value is read from its record.
Value(model, key) == The(model._record).value[_field_name(model.NAME, key)]

\* __getitem__ after _ensure; ret is the value, or the list of values
GetItem(e, key) ==
    LET self == e.m
    IN  IF Raised(e) THEN e
        ELSE IF self._role = "child" /\ self._mode = "one" THEN
            IF Truthy(self._models)
            THEN Return(self, e.s, Value(The(self._models)[1], key))
            ELSE Raise(self, e.s, ModelError(self.NAME, <<"no record">>))
        ELSE IF self._mode = "one" THEN
            IF IsNone(self._record) THEN Raise(self, e.s, TypeError)
            ELSE Return(self, e.s, Value(self, key))
        ELSE IF ~Truthy(self._models) THEN
            Raise(self, e.s, ModelError(self.NAME, <<"no records">>))
        ELSE Return(self, e.s, [i \in 1..Len(The(self._models)) |-> Value(The(self._models)[i], key)])

\* Model.__getitem__
__getitem__(m, key, s) == GetItem(_ensure(m, s), key)

\* __len__ after _ensure; ret is the length
Length(e) ==
    LET self == e.m
    IN  IF Raised(e) THEN e
        ELSE IF self._role = "child" /\ self._mode = "one" THEN
            IF Truthy(self._models)
            THEN Return(self, e.s, Len(_fields(self.NAME)))
            ELSE Return(self, e.s, 0)
        ELSE IF self._mode = "one" THEN
            IF IsNone(self._record) THEN Raise(self, e.s, TypeError)
            ELSE Return(self, e.s, Len(_fields(self.NAME)))
        ELSE IF IsNone(self._models) THEN Raise(self, e.s, TypeError)
        ELSE Return(self, e.s, Len(The(self._models)))

\* Model.__len__
__len__(m, s) == Length(_ensure(m, s))

\* __setitem__ after _ensure
SetItem(e, key, value) ==
    LET self == e.m
    IN  IF Raised(e) THEN e
        ELSE IF self._role = "child" /\ self._mode = "one" THEN
            IF Truthy(self._models)
            THEN SetItemEach(self, 1, 1, key, value, e.s)
            ELSE Raise(self, e.s, ModelError(self.NAME, <<"no record">>))
        ELSE IF self._mode = "one" THEN
            IF IsNone(self._record) THEN Raise(self, e.s, TypeError)
            ELSE _propagate([self EXCEPT !._record =
                                Some(RecordSet(The(@), _field_name(self.NAME, key), value))],
                            key, value, e.s)
        ELSE IF Truthy(self._models)
        THEN SetItemEach(self, 1, Len(The(self._models)), key, value, e.s)
        ELSE Raise(self, e.s, ModelError(self.NAME, <<"no records">>))

\* Model.__setitem__
__setitem__(m, key, value, s) == SetItem(_ensure(m, s), key, value)

\* the loop over _models, after model[key] = value on member i.  A member
\* built by add() was given the handle's own _related dict (not a copy), so
\* what the member's _propagate writes into it shows in the handle; a member
\* read from the source has an empty _related of its own.
SetItemNext(sub, m, i, n, key, value) ==
    LET m1 == [m EXCEPT !._models = Some([The(@) EXCEPT ![i] = sub.m]),
                        !._related = IF DOMAIN sub.m._related # {} THEN sub.m._related ELSE @]
    IN  IF Raised(sub) THEN Raise(m1, sub.s, sub.err)
        ELSE SetItemEach(m1, i + 1, n, key, value, sub.s)

\* for model in self._models: model[key] = value, over members i..n
\* (self._models[0][key] = value is the loop over the first member alone)
SetItemEach(m, i, n, key, value, s) ==
    IF i > n THEN Ok(m, s)
    ELSE SetItemNext(__setitem__(The(m._models)[i], key, value, s), m, i, n, key, value)

\* _propagate, after the child handle took the value
Propagated(set, m) == Into([set EXCEPT !.ret = <<>>], m, relation.parent_child)

\* _propagate, after bool(self._relate(parent_child))
PropagatingTruth(len, m, value) ==
    IF Raised(len) \/ len.ret = 0
    THEN Into([len EXCEPT !.ret = <<>>], m, relation.parent_child)
    ELSE Propagated(__setitem__(len.m, relation.child_field, value, len.s), m)

\* _propagate, after self._relate(parent_child)
Propagating(rel, value) ==
    IF Raised(rel) THEN rel
    ELSE PropagatingTruth(__len__(The(rel.ret), rel.s), rel.m, value)

\* _propagate without the loop over PARENTS
PropagateKeepingParents(m, field, value, s) ==
    LET field_name == _field_name(m.NAME, field)
        m1 == IF field_name \in DOMAIN m._related
              THEN [m EXCEPT !._related[field_name] = value] ELSE m
    IN  IF CHILDREN(m.NAME) # {} /\ field_name = relation.parent_field
        THEN Propagating(_relate(m1, relation.parent_child, s), value)
        ELSE Ok(m1, s)

\* Model._propagate
_propagate(m, field, value, s) ==
    LET field_name == _field_name(m.NAME, field)
        m1 == IF field_name \in DOMAIN m._related
              THEN [m EXCEPT !._related[field_name] = value] ELSE m
        m2 == [m1 EXCEPT !._parents =
                  [cp \in DOMAIN @ |-> IF field_name = relation.child_field THEN Nothing ELSE @[cp]]]
    IN  IF CHILDREN(m.NAME) # {} /\ field_name = relation.parent_field
        THEN Propagating(_relate(m2, relation.parent_child, s), value)
        ELSE Ok(m2, s)

\* _collate, after the relation handle's key values were read
Collated(g, m, name, ours) ==
    IF Raised(g) THEN Into(g, m, name)
    ELSE IF g.m._mode = "one" THEN Raise(SetRelative(m, name, Some(g.m)), g.s, TypeError)
    ELSE Ok([SetRelative(m, name, Some(g.m)) EXCEPT !._record =
                Some(RecordFilter(The(@), ours, "in", {g.ret[i] : i \in DOMAIN g.ret}))],
            g.s)

\* Model._collate
_collate(m, s) ==
    LET name == IF PARENTS(m.NAME) # {} THEN relation.child_parent ELSE relation.parent_child
        theirs == IF PARENTS(m.NAME) # {} THEN relation.parent_field ELSE relation.child_field
        ours == IF PARENTS(m.NAME) # {} THEN relation.child_field ELSE relation.parent_field
    IN  IF name \notin (PARENTS(m.NAME) \cup CHILDREN(m.NAME)) \/ IsNone(Relative(m, name))
        THEN Ok(m, s)
        ELSE Collated(__getitem__(The(Relative(m, name)), theirs, s), m, name, ours)

\* the stored rows, in iteration order, that satisfy the record's criteria
Matches(record, table) ==
    LET keys == SortedKeys(DOMAIN table)
        matching == SelectSeq(keys, LAMBDA k : RecordSatisfy(record, table[k]))
    IN  [i \in 1..Len(matching) |-> table[matching[i]]]

\* MockSource.model_sort: no sort was requested and no order is declared
model_sort(model) == model

\* model._models[start:stop], as Python slices a list
Slice(list, start, stop) ==
    LET to == IF stop < Len(list) THEN stop ELSE Len(list)
    IN  IF start >= to THEN <<>> ELSE [i \in 1..(to - start) |-> list[start + i]]

\* A model_limit that never limits
LimitNothing(model) == model

\* MockSource.model_limit
model_limit(model) ==
    IF IsNone(model._limit) THEN model
    ELSE LET limited == Slice(The(model._models), model._offset,
                              model._offset + The(model._limit))
         IN  [model EXCEPT !._models = Some(limited),
                           !.overflow = @ \/ Len(limited) >= The(model._limit)]

\* Model.retrieve
retrieve(m, verify, s) ==
    IF m._action # "retrieve"
    THEN Raise(m, s, ModelError(m.NAME, <<"cannot retrieve during", m._action>>))
    ELSE model_retrieve(m, verify, s)

\* the instance once its matches are loaded: the record of the single
\* match, or one sub-instance per match
Loaded(model, matches) ==
    IF model._mode = "one" /\ model._role # "child"
    THEN [model EXCEPT !._record = Some(_build(model, "update", <<>>, EmptyDict, TRUE,
                                               Some(matches[1]))),
                       !._action = "update"]
    ELSE [model EXCEPT !._models = Some([i \in 1..Len(matches) |-> FromRead(model.NAME, matches[i])]),
                       !._record = Nothing,
                       !._action = "update"]

\* Faulty cardinality checks: none at all, and one that spares the child role
TooManyNever(model, matches) == FALSE
TooManyNotChild(model, matches) ==
    model._mode = "one" /\ model._role # "child" /\ Len(matches) > 1

\* more than one match is fatal to a retrieve of this mode and role
TooMany(model, matches) == model._mode = "one" /\ Len(matches) > 1

\* model_retrieve after model._collate(); ret is <<"model">>, or <<>> for None
Retrieved(c, verify) ==
    LET model == c.m
        matches == Matches(The(model._record), c.s.data[model.NAME])
    IN  IF Raised(c) THEN c
        ELSE IF TooMany(model, matches)
        THEN Raise(model, c.s, ModelError(model.NAME, <<"more than one retrieved">>))
        ELSE IF model._mode = "one" /\ model._role # "child" /\ Len(matches) < 1
        THEN IF verify
             THEN Raise(model, c.s, ModelError(model.NAME, <<"none retrieved">>))
             ELSE Return(model, c.s, <<>>)
        ELSE IF model._mode = "many"
        THEN Return(model_limit(model_sort(Loaded(model, matches))), c.s, <<"model">>)
        ELSE Return(Loaded(model, matches), c.s, <<"model">>)

\* MockSource.model_retrieve
model_retrieve(m, verify, s) == Retrieved(_collate(m, s), verify)

\* An _each that yields every instance, whatever its action
EachWhatever(m, action) ==
    IF ~IsNone(m._record) THEN <<0>>
    ELSE IF Truthy(m._models) THEN [i \in 1..Len(The(m._models)) |-> i]
    ELSE <<>>

\* Model._each: the instances a verb acts on, by position in _models; the
\* instance itself, when it holds a record, is position 0
_each(m, action) ==
    IF ~IsNone(m._record) /\ (action = "" \/ m._action = action) THEN <<0>>
    ELSE IF Truthy(m._models)
    THEN SelectSeq([i \in 1..Len(The(m._models)) |-> i],
                   LAMBDA i : action = "" \/ The(m._models)[i]._action = action)
    ELSE <<>>

\* the instance at a position of _each, and the instance with it replaced
Member(m, i) == IF i = 0 THEN m ELSE The(m._models)[i]
SetMember(m, i, member) ==
    IF i = 0 THEN member ELSE [m EXCEPT !._models = Some([The(@) EXCEPT ![i] = member])]

\* Model attributes the source reads that no constructor sets
_bulk(model) == FALSE

\* the cascade, after handle.create()
CascadeCreated(c, m, verb) ==
    IF Raised(c) \/ verb = "create" THEN Into(c, m, relation.parent_child)
    ELSE Into(update(c.m, c.s), m, relation.parent_child)

\* the cascade, after bool(handle)
CascadeTruth(len, m, verb) ==
    IF Raised(len) \/ len.ret = 0 THEN Into(len, m, relation.parent_child)
    ELSE CascadeCreated(create(len.m, len.s), m, verb)

\* A create that leaves the child handles alone
CascadeNothing(m, verb, s) == Ok(m, s)

\* for parent_child in CHILDREN: if self._children.get(parent_child):
\* self._children[parent_child].create() in model_create, and
\* .create().update() in model_update
Cascade(m, verb, s) ==
    IF CHILDREN(m.NAME) = {} \/ IsNone(m._children[relation.parent_child]) THEN Ok(m, s)
    ELSE CascadeTruth(__len__(The(m._children[relation.parent_child]), s), m, verb)

\* A faulty create, which accepts the create action alone
CreateOnlyCreating(m, s) ==
    IF m._action # "create"
    THEN Raise(m, s, ModelError(m.NAME, <<"cannot create during", m._action>>))
    ELSE model_create(m, s)

\* Model.create
create(m, s) ==
    IF m._action \notin {"create", "update"}
    THEN Raise(m, s, ModelError(m.NAME, <<"cannot create during", m._action>>))
    ELSE model_create(m, s)

\* the end of model_create's loop body: the created instance is updating
Persisted(c) ==
    IF Raised(c) THEN c
    ELSE Ok([c.m EXCEPT !._action = "update",
                        !._record = Some([The(@) EXCEPT !._action = "update"])], c.s)

\* model_create's loop body after creating[model._id] = id: the row is
\* stored and the children are created
Stored(set, values, id) ==
    LET NAME == set.m.NAME
        s2 == [set.s EXCEPT !.data[NAME] = Put(@, id, values)]
    IN  IF Raised(set) THEN set
        ELSE IF _bulk(set.m) THEN Ok(set.m, s2)
        ELSE Persisted(Cascade(set.m, "create", s2))

\* A loop body that hands out the lowest identity value no stored row has
CreatingLowestFree(creating, s) ==
    LET NAME == creating.NAME
        values == RecordWriteValues(NAME, The(creating._record))
        c1 == [creating EXCEPT !._record = Some(RecordWritten(NAME, The(@)))]
        id == CHOOSE k \in 1..(s.ids[NAME] + 1) :
                 /\ k \notin DOMAIN s.data[NAME]
                 /\ \A j \in 1..(k - 1) : j \in DOMAIN s.data[NAME]
        s1 == [s EXCEPT !.ids[NAME] = IF id > @ THEN id ELSE @]
    IN  Stored(__setitem__(c1, _id(NAME), id, s1), Put(values, _id(NAME), id), id)

\* the body of model_create's loop, for one creating instance
Creating(creating, s) ==
    LET NAME == creating.NAME
        values == RecordWriteValues(NAME, The(creating._record))
        c1 == [creating EXCEPT !._record = Some(RecordWritten(NAME, The(@)))]
        id == s.ids[NAME] + 1
        s1 == [s EXCEPT !.ids[NAME] = id]
        unset == Get(values, _id(NAME)) = None
    IN  Stored(IF unset THEN __setitem__(c1, _id(NAME), id, s1) ELSE Ok(c1, s1),
               IF unset THEN Put(values, _id(NAME), id) ELSE values,
               id)

\* model_create's loop, after its body for the member at Head(each)
CreateNext(c, m, each) ==
    IF Raised(c) THEN Raise(SetMember(m, Head(each), c.m), c.s, c.err)
    ELSE CreateEach(SetMember(m, Head(each), c.m), Tail(each), c.s)

\* for creating in model._each("create")
CreateEach(m, each, s) ==
    IF each = <<>> THEN Ok(m, s)
    ELSE CreateNext(Creating(Member(m, Head(each)), s), m, each)

\* model_create after its loop
Created(c) ==
    IF Raised(c) THEN c
    ELSE IF _bulk(c.m) THEN Return([c.m EXCEPT !._models = Some(<<>>)], c.s, <<"model">>)
    ELSE Return([c.m EXCEPT !._action = "update"], c.s, <<"model">>)

\* MockSource.model_create
model_create(m, s) == Created(CreateEach(m, _each(m, "create"), s))

\* MockSource.field_update over a record (record_update): the values
\* written, which are the fields not readonly and, when changed is given,
\* marked changed (no declared field is a replace field)
RecordUpdateValues(NAME, record, changed) ==
    [f \in {g \in FieldNames(NAME) : ~readonly(NAME, g) /\ (changed = "" \/ record.changed[g])}
        |-> record.value[f]]

\* the record after record_update: a written field is no longer changed
RecordUpdated(NAME, record, changed) ==
    [record EXCEPT !.changed =
        [f \in DOMAIN record.value |->
            IF f \in DOMAIN RecordUpdateValues(NAME, record, changed) THEN FALSE ELSE record.changed[f]]]

\* A faulty update, which goes to the source whatever the action is
UpdateUnchecked(m, s) == model_update(m, s)

\* Model.update
update(m, s) ==
    IF m._action \notin {"update", "retrieve"}
    THEN Raise(m, s, ModelError(m.NAME, <<"cannot update during", m._action>>))
    ELSE model_update(m, s)

\* the body of model_update's loop, for one updating instance
Updating(updating, s) ==
    LET NAME == updating.NAME
        values == RecordUpdateValues(NAME, The(updating._record), "")
        u1 == [updating EXCEPT !._record = Some(RecordUpdated(NAME, The(@), ""))]
        id == Value(u1, _id(NAME))
    IN  IF id \notin DOMAIN s.data[NAME] THEN Raise(u1, s, KeyError)
        ELSE Cascade(u1, "update", [s EXCEPT !.data[NAME][id] = DictUpdate(@, values)])

\* model_update's loop, after its body for the member at Head(each)
UpdateNext(u, m, each, updated) ==
    IF Raised(u) THEN Raise(SetMember(m, Head(each), u.m), u.s, u.err)
    ELSE UpdateEach(SetMember(m, Head(each), u.m), Tail(each), updated + 1, u.s)

\* for updating in model._each("update"); ret counts the rows updated
UpdateEach(m, each, updated, s) ==
    IF each = <<>> THEN Return(m, s, updated)
    ELSE UpdateNext(Updating(Member(m, Head(each)), s), m, each, updated)

\* model_update when the instance is retrieving and a write is staged
UpdateMatching(m, s) ==
    LET record == The(m._record)
        values == RecordUpdateValues(m.NAME, record, "changed")
        table == s.data[m.NAME]
        satisfying == {k \in DOMAIN table : RecordSatisfy(record, table[k])}
    IN  Return([m EXCEPT !._record = Some(RecordUpdated(m.NAME, record, "changed"))],
               [s EXCEPT !.data[m.NAME] =
                   [k \in DOMAIN table |->
                       IF k \in satisfying THEN DictUpdate(table[k], values) ELSE table[k]]],
               Cardinality(satisfying))

\* MockSource.model_update
model_update(m, s) ==
    IF m._action = "retrieve" /\ The(m._record)._action = "update" THEN UpdateMatching(m, s)
    ELSE IF _id(m.NAME) # "" THEN UpdateEach(m, _each(m, "update"), 0, s)
    ELSE Raise(m, s, ModelError(m.NAME, <<"nothing to update from">>))

\* for id in ids: del self.data[model.NAME][id]
RECURSIVE DeleteIds(_, _, _)
DeleteIds(NAME, ids_, s) ==
    IF ids_ = <<>> THEN [s |-> s, err |-> NoError]
    ELSE IF Head(ids_) \notin DOMAIN s.data[NAME] THEN [s |-> s, err |-> KeyError]
    ELSE DeleteIds(NAME, Tail(ids_), [s EXCEPT !.data[NAME] = Del(@, Head(ids_))])

\* A faulty loop of model_delete, which leaves every action as it was
DeletingStaysUpdating(m) == m

\* model_delete's loop over model._each(): every instance it acts on goes
\* back to create action, and so does the model
Deleting(m) ==
    LET each == _each(m, "")
    IN  [(IF each = <<0>> \/ each = <<>> THEN m
          ELSE [m EXCEPT !._models =
                   Some([i \in 1..Len(The(@)) |-> [The(@)[i] EXCEPT !._action = "create"]])])
         EXCEPT !._action = "create"]

\* the identity values model_delete deletes
DeleteList(m, s) ==
    LET table == s.data[m.NAME]
        each == _each(m, "")
    IN  IF m._action = "retrieve"
        THEN SelectSeq(SortedKeys(DOMAIN table), LAMBDA k : RecordSatisfy(The(m._record), table[k]))
        ELSE [j \in 1..Len(each) |-> Value(Member(m, each[j]), _id(m.NAME))]

\* MockSource.model_delete; ret is the number of identity values deleted
model_delete(m, s) ==
    LET m1 == IF m._action = "retrieve" THEN m ELSE Deleting(m)
        d == DeleteIds(m.NAME, DeleteList(m, s), s)
    IN  IF m._action # "retrieve" /\ _id(m.NAME) = ""
        THEN Raise(m, s, ModelError(m.NAME, <<"nothing to delete from">>))
        ELSE IF d.err.kind # "" THEN Raise(m1, d.s, d.err)
        ELSE Return(m1, d.s, Len(DeleteList(m, s)))

\* delete, after the retrieve a one-mode retrieving instance does first
Deleted(r) == IF Raised(r) THEN r ELSE model_delete(r.m, r.s)

\* A faulty delete, which retrieves first in many mode as it does in one mode
DeleteRetrievingFirst(m, s) ==
    IF m._action \notin {"update", "retrieve"}
    THEN Raise(m, s, ModelError(m.NAME, <<"cannot delete during", m._action>>))
    ELSE Deleted(IF m._action = "retrieve" THEN retrieve(m, TRUE, s) ELSE Ok(m, s))

\* Model.delete
delete(m, s) ==
    IF m._action \notin {"update", "retrieve"}
    THEN Raise(m, s, ModelError(m.NAME, <<"cannot delete during", m._action>>))
    ELSE Deleted(IF m._action = "retrieve" /\ m._mode = "one" THEN retrieve(m, TRUE, s) ELSE Ok(m, s))

\* set, after the retrieve a one-mode retrieving instance does first
Inputs(r, args, kwargs) ==
    LET self == r.m
        each == _each(self, "")
        input(model) == [model EXCEPT !._record = Some(_input(self, The(@), args, kwargs))]
    IN  IF Raised(r) THEN r
        ELSE IF each = <<0>> THEN Return(input(self), r.s, <<"self">>)
        ELSE IF each = <<>> THEN Return(self, r.s, <<"self">>)
        ELSE Return([self EXCEPT !._models = Some([i \in 1..Len(The(@)) |-> input(The(@)[i])])],
                    r.s, <<"self">>)

\* Model.set
set(m, args, kwargs, s) ==
    Inputs(IF m._action = "retrieve"
           THEN IF m._mode = "one"
                THEN retrieve(m, TRUE, s)
                ELSE Ok([m EXCEPT !._record = Some([The(@) EXCEPT !._action = "update"])], s)
           ELSE Ok(m, s),
           args, kwargs)

\* Model.limit: the page a retrieve is to load
limit(m, _limit, _offset) == [m EXCEPT !._limit = Some(_limit), !._offset = _offset]

\* Model.__setattr__ for the name of a field: what __setitem__ does for it
__setattr__(m, name, value, s) == SetItem(_ensure(m, s), name, value)

\* add after _ensure (one instance is added: _count is 1)
Added(e, args, kwargs) ==
    LET self == e.m
        added == Creation(self.NAME, self._related, args, kwargs)
    IN  IF Raised(e) THEN e
        ELSE IF self._role = "child" /\ self._mode = "one" THEN
            IF Truthy(self._models)
            THEN Raise(self, e.s, ModelError(self.NAME, <<"only one allowed">>))
            ELSE Return([self EXCEPT !._models = Some(<<added>>)], e.s, <<"self">>)
        ELSE IF self._mode = "one"
        THEN Raise(self, e.s, ModelError(self.NAME, <<"only one allowed">>))
        ELSE Return([self EXCEPT !._models =
                        Some((IF IsNone(@) THEN <<>> ELSE The(@)) \o <<added>>)],
                    e.s, <<"self">>)

\* Model.add
add(m, args, kwargs, s) == Added(_ensure(m, s), args, kwargs)

\* __getattr__ after _ensure
GetAttr(e, name) ==
    IF Raised(e) THEN e
    ELSE IF e.m._mode = "one" THEN _relate(e.m, name, e.s)
    ELSE Raise(e.m, e.s, [kind |-> "AttributeError", NAME |-> "", message |-> <<>>])

\* Model.__getattr__ for the name of a relation; ret is the handle
__getattr__(m, name, s) == GetAttr(_ensure(m, s), name)

----------------------------------------------------------------------------
(* The program.  It holds one instance, held, and calls its methods; the  *)
(* rest of the program reaches the same source through instances it does   *)
(* not keep (Elsewhere...).                                                *)

Source == [ids |-> ids, data |-> data]

\* the named values a caller builds an instance with
Values(NAME) ==
    IF NAME = "unit"
    THEN {[f \in {"name"} |-> n] : n \in Names}
    ELSE {[f \in {"unit_id", "name"} |-> IF f = "name" THEN n ELSE u] :
             n \in Names, u \in 1..MaxId}

\* the named criteria a caller searches with
Criteria(NAME) ==
    {EmptyDict}
    \cup {[k \in {<<"name">>} |-> n] : n \in Names}
    \cup {[k \in {<<"id">>} |-> i] : i \in 1..MaxId}
    \cup {[k \in {<<IF NAME = "unit" THEN "test" ELSE "unit", "name">>} |-> n] : n \in Names}

Holding == ~IsNone(held)

InBounds(s) == \A NAME \in NAMES : s.ids[NAME] <= MaxId

\* the relations of the held instance whose handle is cached
Cached ==
    IF Holding
    THEN {name \in PARENTS(The(held).NAME) \cup CHILDREN(The(held).NAME) :
             ~IsNone(Relative(The(held), name))}
    ELSE {}

\* the state after a call on the held instance that yielded r
Called(verb, args, r) ==
    /\ InBounds(r.s)
    /\ held' = Some(r.m)
    /\ ids' = r.s.ids
    /\ data' = r.s.data
    /\ last' = [verb |-> verb, args |-> args, name |-> "", value |-> None,
                was |-> IF Holding THEN The(held)._action ELSE "", had |-> Cached,
                err |-> r.err,
                ret |-> IF verb \in {"new", "search", "create", "retrieve", "set", "add"}
                        THEN r.ret ELSE <<>>,
                count |-> IF verb \in {"update", "delete"} /\ ~Raised(r) THEN Some(r.ret) ELSE Nothing]
    /\ UNCHANGED MODE

\* the state after a call on an instance that is not kept
CalledElsewhere(verb, r) ==
    /\ InBounds(r.s)
    /\ ids' = r.s.ids
    /\ data' = r.s.data
    /\ last' = [verb |-> verb, args |-> <<>>, name |-> "", value |-> None,
                was |-> "", had |-> {}, err |-> r.err, ret |-> <<>>, count |-> Nothing]
    /\ UNCHANGED <<MODE, held>>

\* the state after a call on the held instance that names a field or a
\* relation of it and gives a value
CalledOn(verb, name, value, r) ==
    /\ InBounds(r.s)
    /\ held' = Some(r.m)
    /\ ids' = r.s.ids
    /\ data' = r.s.data
    /\ last' = [verb |-> verb, args |-> <<>>, name |-> name, value |-> value,
                was |-> IF Holding THEN The(held)._action ELSE "", had |-> Cached,
                err |-> r.err, ret |-> <<>>, count |-> Nothing]
    /\ UNCHANGED MODE

\* held = Unit(name=...), Test(unit_id=..., name=...)
New(NAME, kwargs) ==
    Called("new", <<>>, __init__(NAME, [Options EXCEPT !.kwargs = kwargs], Source))

\* held = Unit([{...}, {...}])
NewMany(NAME, each) ==
    Called("new", <<>>, __init__(NAME, [Options EXCEPT !.each = Some(each)], Source))

\* Unit.one(...), Unit.many(...)
Searching(NAME, mode, kwargs) ==
    __init__(NAME, [Options EXCEPT !._action = "retrieve", !._mode = mode, !.kwargs = kwargs], Source)

\* held = Unit.one(...), Unit.many(...)
Search(NAME, mode, kwargs) == Called("search", <<mode, kwargs>>, Searching(NAME, mode, kwargs))

\* held = Unit.one(value), Unit.many(value): one positional argument
SearchBy(NAME, mode, value) ==
    CalledOn("searchby", mode, value,
             __init__(NAME, [Options EXCEPT !._action = "retrieve", !._mode = mode,
                                            !.args = <<value>>], Source))

Create == Holding /\ Called("create", <<>>, create(The(held), Source))

Retrieve(verify) == Holding /\ Called("retrieve", <<verify>>, retrieve(The(held), verify, Source))

Update == Holding /\ Called("update", <<>>, update(The(held), Source))

Delete == Holding /\ Called("delete", <<>>, delete(The(held), Source))

\* held.set(name=...)
Set(kwargs) == Holding /\ Called("set", <<>>, set(The(held), <<>>, kwargs, Source))

\* what held = held.test leaves in held: the handle, or the owner when the
\* attribute access raised
Handle(r) == IF Raised(r) THEN r ELSE [r EXCEPT !.m = The(r.ret)]

\* held = held.unit, held = held.test
Relative_(name) ==
    /\ Holding
    /\ name \in PARENTS(The(held).NAME) \cup CHILDREN(The(held).NAME)
    /\ Called("relative", <<>>, Handle(__getattr__(The(held), name, Source)))

\* held.test, held.unit: the handle is resolved and cached, held stays
Touch(name) ==
    /\ Holding
    /\ name \in PARENTS(The(held).NAME) \cup CHILDREN(The(held).NAME)
    /\ CalledOn("touch", name, None, __getattr__(The(held), name, Source))

\* r.add(name=...) on the handle an attribute access yielded, as what the
\* owner yields
ThenAdd(r, name, kwargs) ==
    IF Raised(r) THEN r ELSE Into(add(The(r.ret), <<>>, kwargs, r.s), r.m, name)

\* how many members the cached handle of a relation has
Members(m, name) ==
    IF IsNone(Relative(m, name)) \/ IsNone(The(Relative(m, name))._models) THEN 0
    ELSE Len(The(The(Relative(m, name))._models))

\* held.test.add(name=...)
RelativeAdd(name, n) ==
    /\ Holding
    /\ name \in CHILDREN(The(held).NAME)
    /\ Members(The(held), name) < MaxId
    /\ CalledOn("add", name, n,
                ThenAdd(__getattr__(The(held), name, Source), name, [f \in {"name"} |-> n]))

\* held.add(name=...), on a collection that is not full
Add(n) ==
    /\ Holding
    /\ The(held)._mode = "many"
    /\ IF IsNone(The(held)._models) THEN TRUE ELSE Len(The(The(held)._models)) < MaxId
    /\ CalledOn("add", "", n, add(The(held), <<>>, [f \in {"name"} |-> n], Source))

\* held.set(id=...), held.set(unit_id=...)
SetField(name, value) ==
    /\ Holding
    /\ name \in FieldNames(The(held).NAME)
    /\ CalledOn("set", name, value, set(The(held), <<>>, [f \in {name} |-> value], Source))

\* held.id = ..., held.unit_id = ...
SetAttr(name, value) ==
    /\ Holding
    /\ name \in FieldNames(The(held).NAME)
    /\ CalledOn("setattr", name, value, __setattr__(The(held), name, value, Source))

\* held["id"] = ..., held["unit_id"] = ...
SetItem_(key, value) ==
    /\ Holding
    /\ key \in FieldNames(The(held).NAME)
    /\ CalledOn("setitem", key, value, __setitem__(The(held), key, value, Source))

\* held.limit(...), on a many-mode search that has no limit yet
Limit(_limit, _offset) ==
    /\ Holding
    /\ The(held)._mode = "many" /\ The(held)._action = "retrieve"
    /\ IsNone(The(held)._limit)
    /\ CalledOn("limit", "", _limit, Ok(limit(The(held), _limit, _offset), Source))

\* Unit(name=...).create()
ElsewhereCreate(NAME, kwargs) ==
    CalledElsewhere("elsewhere",
                    create(__init__(NAME, [Options EXCEPT !.kwargs = kwargs], Source).m, Source))

\* Unit.one(id=...).delete()
ElsewhereDelete(NAME, id) ==
    /\ id \in DOMAIN data[NAME]
    /\ CalledElsewhere("elsewhere",
                       delete(Searching(NAME, "one", [k \in {<<"id">>} |-> id]).m, Source))

\* r.update() when r did not raise
ThenUpdate(r) == IF Raised(r) THEN r ELSE update(r.m, r.s)

\* Unit.one(id=...).set(name=...).update()
ElsewhereUpdate(NAME, id, kwargs) ==
    /\ id \in DOMAIN data[NAME]
    /\ CalledElsewhere("elsewhere",
                       ThenUpdate(set(Searching(NAME, "one", [k \in {<<"id">>} |-> id]).m,
                                      <<>>, kwargs, Source)))

\* nothing is stored and no instance is held
Empty ==
    /\ ids = [NAME \in NAMES |-> 0]
    /\ data = [NAME \in NAMES |-> EmptyDict]
    /\ held = Nothing
    /\ last = [verb |-> "", args |-> <<>>, name |-> "", value |-> None,
               was |-> "", had |-> {}, err |-> NoError, ret |-> <<>>, count |-> Nothing]

Init == MODE = "many" /\ Empty

\* what the program does with the instances of one entity type
Program(NAME) ==
    \/ \E kwargs \in Values(NAME) : New(NAME, kwargs)
    \/ \E a, b \in Values(NAME) : NewMany(NAME, <<a, b>>)
    \/ \E mode \in {"one", "many"}, kwargs \in Criteria(NAME) : Search(NAME, mode, kwargs)
    \/ Create
    \/ \E verify \in BOOLEAN : Retrieve(verify)
    \/ Update
    \/ Delete
    \/ \E n \in Names : Set([f \in {"name"} |-> n])
    \/ \E kwargs \in Values(NAME) : ElsewhereCreate(NAME, kwargs)
    \/ \E id \in 1..MaxId : ElsewhereDelete(NAME, id)
    \/ \E id \in 1..MaxId, n \in Names : ElsewhereUpdate(NAME, id, [f \in {"name"} |-> n])

Next == Program("unit")

\* The lifecycle of the instances of one entity type
Spec == Init /\ [][Next]_vars

\* Searches over both entity types and the relation between them, which is
\* one to many or one to one: the store is filled, then the program searches
\* it and follows the relation from what it found
InitRel == MODE \in {"many", "one"} /\ Empty

NextRel ==
    \/ ~Holding /\ \E NAME \in NAMES : \E kwargs \in Values(NAME) : ElsewhereCreate(NAME, kwargs)
    \/ ~Holding /\ \E NAME \in NAMES, id \in 1..MaxId : ElsewhereDelete(NAME, id)
    \/ ~Holding /\ \E NAME \in NAMES, mode \in {"one", "many"} : \E kwargs \in Criteria(NAME) :
          Search(NAME, mode, kwargs)
    \/ \E verify \in BOOLEAN : Retrieve(verify)
    \/ \E name \in NAMES : Relative_(name)

SpecRel == InitRel /\ [][NextRel]_vars

\* the row of the held instance, once it is created
Kept(NAME, id) ==
    /\ Holding
    /\ The(held).NAME = NAME
    /\ The(held)._action = "update"
    /\ Value(The(held), _id(NAME)) = id

\* An instance is built and created, and is then kept as it is while other
\* rows of the store are created, updated and deleted
NextRound ==
    \/ \E NAME \in NAMES : \E kwargs \in Values(NAME) : New(NAME, kwargs)
    \/ Create
    \/ \E NAME \in NAMES : \E kwargs \in Values(NAME) : ElsewhereCreate(NAME, kwargs)
    \/ \E NAME \in NAMES, id \in 1..MaxId : ~Kept(NAME, id) /\ ElsewhereDelete(NAME, id)
    \/ \E NAME \in NAMES, id \in 1..MaxId, n \in Names :
          ~Kept(NAME, id) /\ ElsewhereUpdate(NAME, id, [f \in {"name"} |-> n])

SpecRound == Init /\ [][NextRound]_vars

\* The keys of the relation are written while handles of it are cached: an
\* instance is built or found, its relatives are resolved, children are
\* added to it, its key fields are assigned and it is created
InitKey == MODE \in {"many", "one"} /\ Empty

NextKey ==
    \/ ~Holding /\ \E NAME \in NAMES : \E kwargs \in Values(NAME) :
          kwargs["name"] = 11 /\ ElsewhereCreate(NAME, kwargs)
    \/ ~Holding /\ \E NAME \in NAMES : \E kwargs \in Values(NAME) : New(NAME, kwargs)
    \/ ~Holding /\ \E NAME \in NAMES, id \in 1..MaxId :
          Search(NAME, "one", [k \in {<<"id">>} |-> id])
    \/ \E name \in NAMES : Touch(name)
    \/ \E name \in NAMES, n \in Names : RelativeAdd(name, n)
    \/ \E name \in {"id", "unit_id"}, value \in 1..MaxId : SetAttr(name, value)
    \/ \E key \in {"id", "unit_id"}, value \in 1..MaxId : SetItem_(key, value)
    \/ Create

SpecKey == InitKey /\ [][NextKey]_vars

\* Queries over the stored units: the store is filled, the program builds
\* a many-mode search, asks for a page of it and retrieves
NextQuery ==
    \/ ~Holding /\ \E kwargs \in Values("unit") : ElsewhereCreate("unit", kwargs)
    \/ ~Holding /\ \E id \in 1..MaxId : ElsewhereDelete("unit", id)
    \/ ~Holding /\ \E kwargs \in {EmptyDict} \cup {[k \in {<<"name">>} |-> n] : n \in Names} :
          Search("unit", "many", kwargs)
    \/ ~Holding /\ \E value \in Names \cup 1..MaxId : SearchBy("unit", "many", value)
    \/ \E _limit \in 1..(MaxId + 1), _offset \in 0..MaxId : Limit(_limit, _offset)
    \/ \E verify \in BOOLEAN : Retrieve(verify)

SpecQuery == Init /\ [][NextQuery]_vars

\* one field of a Test and a value for it
OneField ==
    {[f \in {"name"} |-> n] : n \in Names} \cup {[f \in {"unit_id"} |-> u] : u \in 1..MaxId}

\* One row through two handles: the program finds a stored Test, sets
\* fields of it and updates it, while the same rows are updated through
\* instances that are not kept
NextShared ==
    \/ ~Holding /\ \E kwargs \in Values("test") : kwargs["name"] = 11 /\ ElsewhereCreate("test", kwargs)
    \/ ~Holding /\ \E id \in 1..MaxId : Search("test", "one", [k \in {<<"id">>} |-> id])
    \/ \E verify \in BOOLEAN : Retrieve(verify)
    \/ \E kwargs \in OneField : Set(kwargs)
    \/ Update
    \/ \E id \in 1..MaxId : \E kwargs \in OneField : ElsewhereUpdate("test", id, kwargs)

SpecShared == Init /\ [][NextShared]_vars

\* Verbs on whole searches: the store is filled with units and tests, the
\* program builds a many-mode search, on the entity's own fields or through
\* the relation, and deletes what it matches or sets a field and updates
NextBulk ==
    \/ ~Holding /\ \E NAME \in NAMES : \E kwargs \in Values(NAME) : ElsewhereCreate(NAME, kwargs)
    \/ ~Holding /\ \E NAME \in NAMES : \E kwargs \in Criteria(NAME) : Search(NAME, "many", kwargs)
    \/ \E n \in Names : Set([f \in {"name"} |-> n])
    \/ Update
    \/ Delete

SpecBulk == Init /\ [][NextBulk]_vars

\* the named values of a Unit whose identity value the caller supplies
Supplied == {[f \in {"id", "name"} |-> IF f = "id" THEN i ELSE n] : i \in 1..MaxId, n \in Names}

\* Identity values: units are built, with and without an identity value of
\* the caller's, their id is assigned, and they are created, updated,
\* deleted and created again, while other units are created and deleted
NextIdent ==
    \/ \E kwargs \in Values("unit") \cup Supplied : New("unit", kwargs)
    \/ \E value \in 1..MaxId : SetAttr("id", value)
    \/ Create
    \/ Update
    \/ Delete
    \/ \E kwargs \in Values("unit") \cup Supplied : ElsewhereCreate("unit", kwargs)
    \/ \E id \in 1..MaxId : ElsewhereDelete("unit", id)

SpecIdent == Init /\ [][NextIdent]_vars

\* Collections: the program builds a collection of units or retrieves
\* one, adds members to it, sets their name and creates, updates and
\* deletes it, while units are created and deleted through other instances
NextMany ==
    \/ ~Holding /\ \E a, b \in Values("unit") : NewMany("unit", <<a, b>>)
    \/ ~Holding /\ Search("unit", "many", EmptyDict)
    \/ Retrieve(TRUE)
    \/ \E n \in Names : Add(n)
    \/ \E n \in Names : Set([f \in {"name"} |-> n])
    \/ Create
    \/ Update
    \/ Delete
    \/ \E kwargs \in Values("unit") : ElsewhereCreate("unit", kwargs)
    \/ \E id \in 1..MaxId : ElsewhereDelete("unit", id)

SpecMany == Init /\ [][NextMany]_vars

\* The keys of the relation are written by set() as well
NextSet ==
    \/ NextKey
    \/ \E name \in {"id", "unit_id"}, value \in 1..MaxId : SetField(name, value)

SpecSet == InitKey /\ [][NextSet]_vars

----------------------------------------------------------------------------
(* Properties.  A property about a call is an action property: it relates  *)
(* the state the call was made in to the state it left (last' names the    *)
(* call).                                                                  *)

self == The(held)
self_ == The(held')

\* the row model_create stores for an instance: what its record holds in
\* the fields that are not readonly, and the identity value it is given
RowOf(m, id) ==
    [f \in FieldNames(m.NAME) |-> IF f = _id(m.NAME) THEN id ELSE The(m._record).value[f]]

\* a one-mode instance that is no relation handle
OneMode(m) == m._mode = "one" /\ m._role = "model"

\* C1: for a one-mode instance built as a creation, create() stores a row
\* under a fresh identity value and moves the action from create to update,
\* update() leaves the action at update, delete() moves it back to create,
\* and create() in the create action reached that way succeeds and stores
\* a row again.
C1_CreateUpdateDeleteCreate ==
    [][(Holding /\ OneMode(self)) =>
        /\ (last'.verb = "create" /\ self._action = "create") =>
              /\ last'.err = NoError
              /\ self_._action = "update"
              /\ ids' = [ids EXCEPT ![self.NAME] = @ + 1]
              /\ data' = [data EXCEPT ![self.NAME] = Put(@, ids'[self.NAME], RowOf(self, ids'[self.NAME]))]
              /\ ids'[self.NAME] \notin DOMAIN data[self.NAME]
        /\ (last'.verb = "update" /\ self._action = "update") =>
              self_._action = "update"
        /\ (last'.verb = "delete" /\ self._action = "update") =>
              /\ self_._action = "create"
              /\ Value(self, _id(self.NAME)) \notin DOMAIN data'[self.NAME]
      ]_vars

\* C1's case: the instance was created, deleted and created again, so that
\* it is stored under the second identity value while the child handle it
\* cached at its first create still carries the first
C1_Recreated ==
    /\ Holding /\ OneMode(self)
    /\ last.verb = "create" /\ last.was = "create" /\ last.err = NoError
    /\ Value(self, "id") = 2
    /\ ~IsNone(self._children["test"])
    /\ The(self._children["test"])._related["unit_id"] = 1
    /\ 2 \in DOMAIN data["unit"]

\* the message of the state error of a verb
Cannot(verb) ==
    CASE verb = "create" -> "cannot create during"
      [] verb = "retrieve" -> "cannot retrieve during"
      [] verb = "update" -> "cannot update during"
      [] verb = "delete" -> "cannot delete during"

\* C2: retrieve() when the action is not retrieve, and update() or delete()
\* when the action is create, raise a ModelError, and the store and the
\* instance (its action and record included) are unchanged.
C2_RejectedBeforeSource ==
    [][(/\ Holding
        /\ \/ last'.verb = "retrieve" /\ self._action # "retrieve"
           \/ last'.verb \in {"update", "delete"} /\ self._action = "create") =>
        /\ last'.err = ModelError(self.NAME, <<Cannot(last'.verb), self._action>>)
        /\ data' = data
        /\ ids' = ids
        /\ held' = held
      ]_vars

\* C2's case: update() was rejected on an instance in create action
C2_UpdateRejected ==
    /\ Holding /\ self._action = "create"
    /\ last.verb = "update" /\ last.was = "create"
    /\ last.err = ModelError("unit", <<"cannot update during", "create">>)

\* C3 as stated: create() on an instance in update action is rejected with
\* a state error and no row is added.
C3_CreateRejected ==
    [][(Holding /\ last'.verb = "create" /\ self._action = "update") =>
        (last'.err.kind = "ModelError" /\ data' = data)]_vars

\* C3, amended: create() on an instance in update action none of whose
\* sub-instances is in create action raises nothing, adds no row, hands out
\* no identity value and leaves the action at update; create() is rejected
\* with a state error, and changes nothing, in retrieve action alone.
C3_CreateWhilePersisted ==
    [][(Holding /\ last'.verb = "create") =>
        /\ (self._action = "update" /\ _each(self, "create") = <<>>) =>
              /\ last'.err = NoError
              /\ data' = data
              /\ ids' = ids
              /\ self_._action = "update"
        /\ (last'.err.kind = "ModelError" /\ last'.err.NAME = self.NAME
            /\ last'.err.message[1] = Cannot("create")) <=> self._action = "retrieve"
        /\ self._action = "retrieve" => (data' = data /\ ids' = ids /\ held' = held)
      ]_vars

\* C3's case: create() was called on a one-mode instance whose row is stored
C3_CreatedTwice ==
    /\ Holding /\ OneMode(self)
    /\ last.verb = "create" /\ last.was = "update" /\ last.err = NoError
    /\ Value(self, "id") \in DOMAIN data["unit"]
    /\ Cardinality(DOMAIN data["unit"]) = 1

\* C4 as stated: after every successful delete() the action is create.
C4_DeleteAlwaysCreate ==
    [][(Holding /\ last'.verb = "delete" /\ last'.err = NoError) =>
        self_._action = "create"]_vars

\* C4, amended: after a successful delete() the action is create, except on
\* a many-mode instance in retrieve action, which deletes the rows its
\* criteria match and stays in retrieve action.
C4_DeleteAction ==
    [][(Holding /\ last'.verb = "delete" /\ last'.err = NoError) =>
        /\ self._action \in {"update", "retrieve"}
        /\ self_._action =
              IF self._action = "retrieve" /\ self._mode = "many" THEN "retrieve" ELSE "create"
      ]_vars

\* C4's case: a many-mode instance in retrieve action deleted a stored row
C4_DeletedByCriteria ==
    /\ Holding /\ self._mode = "many" /\ self._action = "retrieve"
    /\ last.verb = "delete" /\ last.was = "retrieve" /\ last.err = NoError
    /\ last.count = Some(1)

\* the values a record holds in the fields set() changed
Staged(record) ==
    [f \in {g \in DOMAIN record.value : record.changed[g]} |-> record.value[f]]

\* C5: on a many-mode instance in retrieve action set() stages a write (the
\* record's intent becomes update, the action stays retrieve); update()
\* then writes the staged values to every row the criteria match, and after
\* it the action is retrieve and the record no longer carries update intent.
C5_StagedUpdateReturns ==
    [][(Holding /\ self._mode = "many" /\ self._action = "retrieve" /\ self._role = "model") =>
        /\ (last'.verb = "set") =>
              /\ self_._action = "retrieve"
              /\ The(self_._record)._action = "update"
              /\ data' = data
        /\ (last'.verb = "update" /\ The(self._record)._action = "update") =>
              /\ last'.err = NoError
              /\ data' = [data EXCEPT ![self.NAME] =
                    [k \in DOMAIN @ |->
                        IF RecordSatisfy(The(self._record), @[k])
                        THEN DictUpdate(@[k], Staged(The(self._record)))
                        ELSE @[k]]]
              /\ self_._action = "retrieve"
              /\ The(self_._record)._action # "update"
      ]_vars

\* What a search asks for, said over the stored rows alone.  A row is
\* linked to a row of the other entity type when the child's foreign key
\* is the parent's identity value.
Linked(NAME, row, other) ==
    IF NAME = relation.Parent
    THEN other[relation.child_field] = row[relation.parent_field]
    ELSE row[relation.child_field] = other[relation.parent_field]

OtherNAME(NAME) == IF NAME = relation.Parent THEN relation.Child ELSE relation.Parent

\* the row satisfies field=value, and relation__field=value through a
\* linked row
Satisfies(NAME, kwargs, row) ==
    \A k \in DOMAIN kwargs :
        IF k[1] \in FieldNames(NAME)
        THEN row[k[1]] = kwargs[k]
        ELSE \E j \in DOMAIN data[OtherNAME(NAME)] :
                /\ data[OtherNAME(NAME)][j][k[2]] = kwargs[k]
                /\ Linked(NAME, row, data[OtherNAME(NAME)][j])

Matching(NAME, kwargs) == {k \in DOMAIN data[NAME] : Satisfies(NAME, kwargs, data[NAME][k])}

\* the call is the retrieve() of an instance just built by one() or many()
SearchRetrieved == Holding /\ last.verb = "search" /\ last'.verb = "retrieve"

\* C6: whatever is stored and whatever the filter, a one-mode non-child
\* retrieve whose filter matches two or more stored rows raises "more than
\* one retrieved" and loads nothing, and a many-mode retrieve whose filter
\* matches rows yields exactly one sub-instance per matching row.
C6_Cardinality ==
    [][SearchRetrieved =>
        /\ (self._mode = "one" /\ Cardinality(Matching(self.NAME, last.args[2])) >= 2) =>
              /\ last'.err = ModelError(self.NAME, <<"more than one retrieved">>)
              /\ self_._action = "retrieve"
              /\ IsNone(self_._models)
              /\ The(self_._record).value = [f \in FieldNames(self.NAME) |-> None]
              /\ data' = data
        /\ (self._mode = "many" /\ Cardinality(Matching(self.NAME, last.args[2])) >= 1) =>
              /\ last'.err = NoError
              /\ Len(The(self_._models)) = Cardinality(Matching(self.NAME, last.args[2]))
              /\ \A k \in Matching(self.NAME, last.args[2]) :
                    \E i \in DOMAIN The(self_._models) :
                        The(The(self_._models)[i]._record).value = data[self.NAME][k]
              /\ data' = data
      ]_vars

\* C6's case: a one-mode search through the relation matched two rows
C6_TwoMatched ==
    /\ Holding /\ OneMode(self) /\ self._action = "retrieve"
    /\ last.verb = "retrieve" /\ last.was = "retrieve"
    /\ last.err = ModelError(self.NAME, <<"more than one retrieved">>)
    /\ \E name \in PARENTS(self.NAME) \cup CHILDREN(self.NAME) : ~IsNone(Relative(self, name))

\* the stored rows whose foreign key is the one a child handle inherited
Inherited(m) ==
    {k \in DOMAIN data[m.NAME] :
        data[m.NAME][k][relation.child_field] = m._related[relation.child_field]}

\* C7 as stated: "more than one retrieved" is raised only when the mode is
\* one and the role is not child; a child-role one-mode retrieve whose
\* foreign key matches several rows does not raise it.
C7_OnlyNonChild ==
    [][(Holding /\ last'.verb = "retrieve" /\ self._action = "retrieve"
        /\ last'.err.message = <<"more than one retrieved">>) =>
        (self._mode = "one" /\ self._role # "child")]_vars

\* C7, amended: "more than one retrieved" is raised only when the mode is
\* one, and then whatever the role: a child-role retrieve raises it exactly
\* when its mode is one and its foreign key matches more than one stored
\* row; what the child role is spared is "none retrieved".
C7_MoreThanOne ==
    [][(Holding /\ last'.verb = "retrieve" /\ self._action = "retrieve") =>
        /\ last'.err.message = <<"more than one retrieved">> => self._mode = "one"
        /\ self._role = "child" =>
              /\ last'.err = ModelError(self.NAME, <<"more than one retrieved">>)
                    <=> (self._mode = "one" /\ Cardinality(Inherited(self)) > 1)
              /\ last'.err.message # <<"none retrieved">>
              /\ Inherited(self) = {} => (last'.err = NoError /\ self_._models = Some(<<>>))
      ]_vars

\* C7's case: a child-role one-mode retrieve matched two rows and raised
C7_ChildRaised ==
    /\ Holding /\ self._role = "child" /\ self._mode = "one"
    /\ last.verb = "retrieve" /\ last.was = "retrieve"
    /\ last.err = ModelError("test", <<"more than one retrieved">>)
    /\ Cardinality(Inherited(self)) = 2

\* C8: a one-mode non-child retrieve whose filter matches no stored row
\* raises "none retrieved" when verify is true and returns None without
\* raising when verify is false; either way the store is unchanged and the
\* instance stays in retrieve action.
C8_NoneRetrieved ==
    [][(SearchRetrieved /\ self._mode = "one" /\ Matching(self.NAME, last.args[2]) = {}) =>
        /\ last'.args[1] => last'.err = ModelError(self.NAME, <<"none retrieved">>)
        /\ ~last'.args[1] => (last'.err = NoError /\ last'.ret = <<>>)
        /\ data' = data
        /\ ids' = ids
        /\ self_._action = "retrieve"
      ]_vars

\* C9: an instance built with field values and created is found again by a
\* one-mode retrieve by the identity value create() gave it, with the
\* field values it was created with, whatever other rows were created,
\* updated or deleted since.
C9_RoundTrip ==
    (Holding /\ OneMode(self) /\ self._action = "update") =>
        /\ ~Raised(retrieve(Searching(self.NAME, "one", [k \in {<<_id(self.NAME)>>} |->
                                Value(self, _id(self.NAME))]).m, TRUE, Source))
        /\ The(retrieve(Searching(self.NAME, "one", [k \in {<<_id(self.NAME)>>} |->
                                Value(self, _id(self.NAME))]).m, TRUE, Source).m._record).value
              = The(self._record).value

\* C9's case: the instance was created first, then another row was created
\* and deleted
C9_OthersCameAndWent ==
    /\ Holding /\ OneMode(self) /\ self._action = "update"
    /\ last.verb = "elsewhere"
    /\ Value(self, "id") = 1
    /\ ids[self.NAME] = 2
    /\ DOMAIN data[self.NAME] = {1}

\* C10: Child.many(parent__field=value) loads exactly the children whose
\* foreign key is the identity value of a parent with field = value, for
\* any number of such parents, none included.
C10_FilterCollation ==
    [][(SearchRetrieved /\ self.NAME = relation.Child /\ self._mode = "many"
        /\ DOMAIN last.args[2] = {<<relation.child_parent, "name">>}) =>
        /\ last'.err = NoError
        /\ {Value(The(self_._models)[i], _id(self.NAME)) : i \in DOMAIN The(self_._models)}
              = Matching(self.NAME, last.args[2])
        /\ Len(The(self_._models)) = Cardinality(Matching(self.NAME, last.args[2]))
      ]_vars

\* a child handle whose inherited foreign key and whose members' foreign
\* keys all have the value v
Carries(handle, v) ==
    /\ handle._related["unit_id"] = v
    /\ ~IsNone(handle._models) =>
          \A i \in 1..Len(The(handle._models)) :
              The(The(handle._models)[i]._record).value["unit_id"] = v

\* held.id was assigned without an error while held.test was cached
KeyWritten ==
    /\ Holding /\ OneMode(self) /\ self.NAME = "unit"
    /\ ~IsNone(self._children["test"])
    /\ last'.verb \in {"setattr", "setitem"} /\ last'.name = "id"
    /\ last'.err = NoError

\* C11: after a write to the parent-side key field (unit.id) of a one-mode
\* instance, the already cached child handle carries the written value in
\* its inherited foreign key and in the foreign key of every member,
\* whether or not it has members.
C11_PropagatedToChildren ==
    [][KeyWritten => Carries(The(self_._children["test"]), last'.value)]_vars

\* the cached parent handle of the held Test, and what a parent placeholder
\* for the foreign key value v is: a retrieving one-mode Unit whose
\* criteria are id = v
Parent == The(self._parents["unit"])
Placeholder(handle, v) ==
    /\ handle.NAME = "unit" /\ handle._role = "parent"
    /\ handle._mode = "one" /\ handle._action = "retrieve"
    /\ handle._related = [f \in {"id"} |-> v]
    /\ The(handle._record).criteria["id"].eq = Some(v)
    /\ IsNone(handle._models)

Sought ==
    SelectSeq(SortedKeys(DOMAIN data[self.NAME]),
              LAMBDA id : \A f \in FieldNames(self.NAME) :
                             \/ IsNone(The(self._record).criteria[f].eq)
                             \/ data[self.NAME][id][f] = The(The(self._record).criteria[f].eq))

\* the identity values of the members of a collection, in its order
Identities(m) == [i \in 1..Len(The(m._models)) |-> Value(The(m._models)[i], _id(m.NAME))]

\* a many-mode search with a limit is retrieved
LimitedRetrieve ==
    /\ Holding /\ self._mode = "many" /\ self._action = "retrieve"
    /\ ~IsNone(self._limit)
    /\ last'.verb = "retrieve"

Smaller(a, b) == IF a < b THEN a ELSE b

\* C13: a many-mode retrieve with limit L and offset O over N matching rows
\* loads exactly min(L, max(0, N - O)) members, the slice [O, O + L) of the
\* matches in their order; with N > L and offset 0 overflow is true, and
\* with L > N overflow is false.
C13_Pagination ==
    [][LimitedRetrieve =>
        LET L == The(self._limit)
            O == self._offset
            N == Len(Sought)
            count == Smaller(L, IF N - O > 0 THEN N - O ELSE 0)
        IN  /\ last'.err = NoError
            /\ ~IsNone(self_._models)
            /\ Len(The(self_._models)) = count
            /\ Identities(self_) = [i \in 1..count |-> Sought[O + i]]
            /\ (O = 0 /\ N > L) => self_.overflow
            /\ (L > N) => ~self_.overflow
      ]_vars

\* C13's case: the second of two matching rows was loaded as a page of one
C13_SecondPage ==
    /\ Holding /\ last.verb = "retrieve" /\ last.err = NoError
    /\ self._limit = Some(1) /\ self._offset = 1
    /\ Cardinality(DOMAIN data["unit"]) = 2
    /\ ~IsNone(self._models)
    /\ Identities(self) = <<2>>

\* C14: after a limited many-mode retrieve, overflow is true only if at
\* least one matching row at or after the offset was left out of the
\* result by the limit.
C14_OverflowMeansTruncated ==
    [][LimitedRetrieve =>
        (self_.overflow => Len(Sought) - self._offset > The(self._limit))]_vars

\* C15: whatever create(), retrieve(), update() or delete() raises, after
\* any sequence of operations on any number of instances of the entity
\* type, is a ModelError carrying an entity type: no other kind of error
\* escapes.
C15_OnlyModelError ==
    (Holding /\ last.verb \in {"create", "retrieve", "update", "delete"}) =>
        \/ last.err = NoError
        \/ last.err.kind = "ModelError" /\ last.err.NAME \in NAMES

\* an instance that holds a record or a collection, and not both
ExactlyOne(m) == IsNone(m._record) # IsNone(m._models)

\* C16: every Model instance (the held one and every relation handle
\* constructed for it) holds exactly one of a record and a collection of
\* sub-instances: never both, never neither.
C16_RecordOrCollection ==
    Holding =>
        /\ ExactlyOne(self)
        /\ \A name \in Cached : ExactlyOne(The(Relative(self, name)))

\* the field the first positional value goes to when a record is built
\* for creation: the first that is neither readonly nor inherited
FirstInput(m) == _fields(m.NAME)[InputField(m.NAME, m._related, 0) + 1]

\* C17: in a filter call the first positional argument binds to the first
\* field, in declared order, that is neither read-only nor inherited, as
\* positional values do when a record is built for creation: the search
\* asks for that value in that field and for nothing in the others.
C17_PositionalFilter ==
    [][last'.verb = "searchby" =>
        /\ last'.err = NoError
        /\ \A f \in FieldNames(self_.NAME) :
              The(self_._record).criteria[f].eq =
                  IF f = FirstInput(self_) THEN Some(last'.value) ELSE Nothing
      ]_vars

\* the cached child handle of the held Unit and its members
Kids(m) == The(m._children["test"])
Kid(m, i) == The(Kids(m)._models)[i]

\* the held Unit is not persisted and has children staged through its
\* child relation, none of them persisted
ChildrenStaged ==
    /\ Holding /\ OneMode(self) /\ self.NAME = "unit"
    /\ self._action = "create"
    /\ "test" \in Cached
    /\ Truthy(Kids(self)._models)
    /\ \A i \in 1..Len(The(Kids(self)._models)) : Kid(self, i)._action = "create"

\* C18: create() on a parent instance with child sub-instances staged
\* through its child relation before it was persisted stores the parent's
\* row under a new identity value and, in the same call, every staged
\* child's row with its foreign key equal to that identity value; parent
\* and children all end in update action.
C18_CascadeCreate ==
    [][(ChildrenStaged /\ last'.verb = "create") =>
        LET id == ids["unit"] + 1
            n == Len(The(Kids(self)._models))
        IN  /\ last'.err = NoError
            /\ ids' = [ids EXCEPT !["unit"] = id, !["test"] = @ + n]
            /\ id \notin DOMAIN data["unit"]
            /\ data'["unit"] = Put(data["unit"], id, RowOf(self, id))
            /\ Value(self_, "id") = id
            /\ self_._action = "update"
            /\ Len(The(Kids(self_)._models)) = n
            /\ DOMAIN data'["test"] = DOMAIN data["test"] \cup {ids["test"] + i : i \in 1..n}
            /\ \A i \in 1..n :
                  /\ data'["test"][ids["test"] + i] =
                         [f \in FieldNames("test") |->
                             CASE f = "id" -> ids["test"] + i
                               [] f = "unit_id" -> id
                               [] OTHER -> Value(Kid(self, i), f)]
                  /\ Kid(self_, i)._action = "update"
                  /\ Value(Kid(self_, i), "unit_id") = id
                  /\ Value(Kid(self_, i), "id") = ids["test"] + i
            /\ \A k \in DOMAIN data["test"] : data'["test"][k] = data["test"][k]
      ]_vars

\* C18's case: a parent with two staged children was created, and the
\* three rows are stored
C18_TwoChildrenCreated ==
    /\ Holding /\ OneMode(self) /\ self.NAME = "unit"
    /\ last.verb = "create" /\ last.was = "create" /\ last.err = NoError
    /\ "test" \in last.had /\ "test" \in Cached
    /\ Truthy(Kids(self)._models)
    /\ Len(The(Kids(self)._models)) = 2
    /\ \A i \in 1..2 : /\ Kid(self, i)._action = "update"
                        /\ Value(Kid(self, i), "id") \in DOMAIN data["test"]
                        /\ data["test"][Value(Kid(self, i), "id")]["unit_id"] = Value(self, "id")
    /\ Value(self, "id") \in DOMAIN data["unit"]

\* C19: update() on an instance in update action writes to the stored row
\* exactly the fields changed on the instance: every stored field of its
\* row that is not marked changed keeps the value it had in the store, as
\* does every row of another identity.
C19_OnlyChangedWritten ==
    [][(/\ Holding /\ OneMode(self) /\ self._action = "update"
        /\ last'.verb = "update" /\ last'.err = NoError) =>
          /\ DOMAIN data'[self.NAME] = DOMAIN data[self.NAME]
          /\ \A id \in DOMAIN data[self.NAME], f \in FieldNames(self.NAME) :
                (id # Value(self, _id(self.NAME)) \/ ~The(self._record).changed[f]) =>
                    data'[self.NAME][id][f] = data[self.NAME][id][f]
      ]_vars

\* what retrieve() on the held search yields, and the identity values of
\* the rows it returns
WouldRetrieve == retrieve(self, TRUE, Source)
Returned == {Identities(WouldRetrieve.m)[i] : i \in 1..Len(The(WouldRetrieve.m._models))}

\* C20: delete(), or update() with a staged write, on a many-mode instance
\* in retrieve action affects exactly the rows retrieve() on that instance
\* would return, criteria on relations included: each of them is deleted,
\* or receives the changed fields, every other row is unchanged, and the
\* count returned is their number.
C20_ExactlyTheRetrieved ==
    [][(/\ Holding /\ self._mode = "many" /\ self._action = "retrieve"
        /\ ~Raised(WouldRetrieve)
        /\ last'.err = NoError
        /\ \/ last'.verb = "delete"
           \/ last'.verb = "update" /\ The(self._record)._action = "update") =>
          /\ last'.count = Some(Cardinality(Returned))
          /\ \A id \in DOMAIN data[self.NAME] \ Returned :
                id \in DOMAIN data'[self.NAME] /\ data'[self.NAME][id] = data[self.NAME][id]
          /\ \A id \in Returned :
                IF last'.verb = "delete" THEN id \notin DOMAIN data'[self.NAME]
                ELSE \A f \in FieldNames(self.NAME) :
                        data'[self.NAME][id][f] =
                            IF The(self._record).changed[f] THEN The(self._record).value[f]
                            ELSE data[self.NAME][id][f]
      ]_vars

\* C21: the counter of an entity type never decreases; a row that is
\* created is stored under an identity value greater than the counter was,
\* hence greater than every value handed out before, and so an identity
\* value freed by delete() is never handed out again; no stored row has an
\* identity value above the counter.
C21_MonotonicIdentity ==
    /\ [][\A NAME \in NAMES :
            /\ ids'[NAME] >= ids[NAME]
            /\ \A id \in DOMAIN data'[NAME] \ DOMAIN data[NAME] :
                  /\ id > ids[NAME]
                  /\ data'[NAME][id][_id(NAME)] > ids[NAME]
            /\ (Holding /\ OneMode(self) /\ self.NAME = NAME /\ self._action = "create"
                 /\ last'.verb = "create" /\ last'.err = NoError) =>
                    Value(self_, _id(NAME)) = ids'[NAME] /\ ids'[NAME] > ids[NAME]
         ]_vars
    /\ [](\A NAME \in NAMES : \A id \in DOMAIN data[NAME] : id <= ids[NAME])

\* C21's case: the identity value 1 was handed out and freed by a delete,
\* and the instance created after that is 2 while 1 stays free
C21_FreedNotReused ==
    /\ Holding /\ OneMode(self) /\ self.NAME = "unit"
    /\ last.verb = "create" /\ last.was = "create" /\ last.err = NoError
    /\ ids["unit"] = 2
    /\ DOMAIN data["unit"] = {2}
    /\ Value(self, "id") = 2

Collection == Holding /\ self._mode = "many" /\ ~IsNone(self._models)

\* the actions of the members of a collection, in its order
Actions(m) == [i \in 1..Len(The(m._models)) |-> The(m._models)[i]._action]

\* the positions of the members of the held collection in create action
InCreate == SelectSeq([i \in 1..Len(The(self._models)) |-> i],
                      LAMBDA i : The(self._models)[i]._action = "create")

\* C23: create() on a collection stores exactly its members in create
\* action, each once and under a new identity value, and leaves every
\* member in update action; when every member is in update action already
\* it adds no row and does not advance the counter.
C23_CreateOnce ==
    [][(Collection /\ self._action \in {"create", "update"} /\ last'.verb = "create") =>
        LET n == Len(InCreate)
            first == ids[self.NAME]
        IN  /\ last'.err = NoError
            /\ ids' = [ids EXCEPT ![self.NAME] = first + n]
            /\ DOMAIN data'[self.NAME] = DOMAIN data[self.NAME] \cup {first + j : j \in 1..n}
            /\ \A id \in DOMAIN data[self.NAME] : data'[self.NAME][id] = data[self.NAME][id]
            /\ \A j \in 1..n :
                  /\ data'[self.NAME][first + j] = RowOf(The(self._models)[InCreate[j]], first + j)
                  /\ Value(The(self_._models)[InCreate[j]], _id(self.NAME)) = first + j
            /\ self_._action = "update"
            /\ Actions(self_) = [i \in 1..Len(The(self._models)) |-> "update"]
            /\ (n = 0) => (data' = data /\ ids' = ids)
      ]_vars

\* C23's case: a collection with a member that was stored already and a
\* member that was added to it was created: one row was added
C23_OnlyTheAddedCreated ==
    /\ Collection
    /\ last.verb = "create" /\ last.was = "update" /\ last.err = NoError
    /\ Actions(self) = <<"update", "update">>
    /\ Identities(self) = <<1, 2>>
    /\ DOMAIN data["unit"] = {1, 2}
    /\ The(The(self._models)[2]._record).changed["id"]
    /\ ~The(The(self._models)[1]._record).changed["id"]

\* C24: when create(), update() or delete() on a collection raises, the
\* stored rows and the actions of the instance and of all its members are
\* as they were before the call.
C24_NoPartialEffect ==
    [][(/\ Collection
        /\ last'.verb \in {"create", "update", "delete"}
        /\ last'.err # NoError) =>
          /\ data' = data
          /\ self_._action = self._action
          /\ Actions(self_) = Actions(self)
      ]_vars

\* what assigning the field set() was called with, by attribute, yields
Assigned == __setattr__(self, last'.name, last'.value, Source)

\* C25: set(field=value) on a one-mode instance leaves its relation
\* handles as assigning the field by attribute does: the cached parent
\* handle is dropped when the field is the foreign key, the cached child
\* handle has the new value when the field is the parent key, and the
\* inherited value of the field is the new value.
C25_SetAsAssignment ==
    [][(/\ Holding /\ OneMode(self)
        /\ last'.verb = "set" /\ last'.name \in {"id", "unit_id"}
        /\ last'.err = NoError
        /\ ~Raised(Assigned)) =>
          /\ self_._parents = Assigned.m._parents
          /\ \A name \in DOMAIN self._children :
                ~IsNone(self._children[name]) => self_._children[name] = Assigned.m._children[name]
          /\ self_._related = Assigned.m._related
      ]_vars

\* C26: for a one-mode instance in update action, a cached parent handle
\* denotes the parent row whose key is the instance's foreign key value: it
\* is the one-mode placeholder of that value, not the many-mode search a
\* filter on the relation was collated from.
C26_ParentOfForeignKey ==
    (/\ Holding /\ OneMode(self) /\ self.NAME = "test"
     /\ self._action = "update"
     /\ ~IsNone(self._parents["unit"])) =>
        /\ Parent._role = "parent"
        /\ Parent._mode = "one"
        /\ DOMAIN Parent._related = {"id"}
        /\ Parent._related["id"] = The(self._record).value["unit_id"]


====
